---- MODULE Spec2Model ----
(***************************************************************************)
(* Model of complete_data_import.py: one run of main() is the sequence     *)
(* health check -> import_complete_data (domain phase, indicator           *)
(* discovery, indicator phase) -> add_resources_to_all_indicators          *)
(* (backfill) -> test_api_endpoints.  Every HTTP round trip is one step;   *)
(* the two services are the variables domains, indicators and resources.  *)
(***************************************************************************)
EXTENDS Integers, Sequences, FiniteSets, TLC

\* Bounds of the model.
MaxRuns == 2
MaxFaults == 2

\* limit = 50 (maximum page size of GET /indicators/)
PageLimit == 50

VARIABLES
    domains,                \* catalog service: <<[id, name]>>
    indicators,             \* catalog service: <<[id, name, resources, ...]>>
    resources,              \* resource service: listing of resource ids
    doc,                    \* the desired-state document (DOMAINS_FILE)
    pc,                     \* position of the process
    run,                    \* number of runs of main() started
    exit_code,              \* -1 while running or never run, else sys.exit status
    health,                 \* outcome of the last health probe
    existing_domain_names,  \* import_complete_data locals
    domain_id_map,
    di,
    existing_indicators,
    ii,
    total_indicators,
    created_indicators,
    skipped_indicators,
    bf_indicators,          \* add_resources_to_all_indicators locals
    bi,
    bf_total,
    updated_indicators,
    total_resources,
    resource_id,
    log,                    \* requests issued in the current run, in order
    faults,                 \* failed calls so far (all runs)
    ends                    \* one summary per finished run

vars == <<domains, indicators, resources, doc, pc, run, exit_code, health,
          existing_domain_names, domain_id_map, di, existing_indicators, ii,
          total_indicators, created_indicators, skipped_indicators,
          bf_indicators, bi, bf_total, updated_indicators, total_resources,
          resource_id, log, faults, ends>>

services == <<domains, indicators, resources>>
importLocals == <<existing_domain_names, domain_id_map, di, existing_indicators,
                  ii, total_indicators, created_indicators, skipped_indicators>>
backfillLocals == <<bf_indicators, bi, bf_total, updated_indicators,
                    total_resources, resource_id>>

Min(a, b) == IF a < b THEN a ELSE b

-----------------------------------------------------------------------------
\* Resource identifiers are strings, as in the services' JSON.

SENTINEL == "string"
SYNTHETIC == "gdp_resource"
STALE == "64f0dead"
RESOURCE_SUFFIX == "_resource"

\* str.endswith
EndsWith(s, suffix) ==
    /\ Len(s) >= Len(suffix)
    /\ SubSeq(s, Len(s) - Len(suffix) + 1, Len(s)) = suffix

\* Variant: the id of the service's latest resource is handed out again.
NewResourceId_Latest(listing) ==
    IF listing = <<>> THEN "res1" ELSE listing[Len(listing)]

\* The id the resource service gives its next record.
NewResourceId(listing) == "res" \o ToString(Len(listing) + 1)

\* The id the catalog service gives its next record.
NewId(records) == Len(records) + 1

-----------------------------------------------------------------------------
\* Desired-state documents.

\* has_name, has_characteristics: the key is present in the JSON object.
Ind(n) == [name |-> n, has_name |-> TRUE, has_characteristics |-> TRUE]
Sub(n, inds) == [name |-> n, has_name |-> TRUE, indicators |-> inds]
Dom(n, subs) == [name |-> n, has_name |-> TRUE, subdomains |-> subs]

\* Objects that lack a required key.
IndNoName == [name |-> "", has_name |-> FALSE, has_characteristics |-> TRUE]
IndNoCharacteristics(n) ==
    [name |-> n, has_name |-> TRUE, has_characteristics |-> FALSE]
SubNoName(inds) == [name |-> "", has_name |-> FALSE, indicators |-> inds]
DomNoName(subs) == [name |-> "", has_name |-> FALSE, subdomains |-> subs]
Document(ds) == [loadable |-> TRUE, has_domains |-> TRUE, domains |-> ds]

Docs ==
    { Document(<<Dom("A", <<Sub("s", <<Ind("x")>>)>>)>>),
      Document(<<Dom("A", <<Sub("s", <<Ind("x"), Ind("y")>>)>>)>>),
      Document(<<Dom("A", <<Sub("s", <<Ind("x")>>)>>),
                 Dom("B", <<Sub("t", <<Ind("y")>>)>>)>>),
      Document(<<Dom("A", <<Sub("s", <<Ind("x")>>), Sub("t", <<Ind("x")>>)>>)>>),
      Document(<<Dom("A", <<Sub("s", <<Ind("x"), Ind("y")>>),
                            Sub("t", <<Ind("z")>>)>>)>>),
      Document(<<Dom("B", <<Sub("t", <<Ind("x"), Ind("y")>>)>>)>>),
      Document(<<Dom("A", <<Sub("s", <<Ind("x")>>)>>), DomNoName(<<>>)>>),
      Document(<<Dom("A", <<SubNoName(<<Ind("x")>>)>>)>>),
      Document(<<Dom("A", <<Sub("s", <<Ind("x"), IndNoName>>)>>)>>),
      Document(<<Dom("A", <<Sub("s", <<Ind("x"), IndNoCharacteristics("y")>>)>>)>>),
      [loadable |-> TRUE, has_domains |-> FALSE, domains |-> <<>>],
      [loadable |-> FALSE, has_domains |-> FALSE, domains |-> <<>>] }

\* The indicator entries of a document in the order of the three nested loops.
\* A subdomain without 'name' is one entry: subdomain['name'] raises before
\* its indicators are reached.
Entry(dname, sname, sub_has_name, ind) ==
    [domain |-> dname, subdomain |-> sname, sub_has_name |-> sub_has_name,
     name |-> ind.name, has_name |-> ind.has_name,
     has_characteristics |-> ind.has_characteristics]

RECURSIVE SubEntries(_, _, _)
SubEntries(dname, sname, inds) ==
    IF inds = <<>> THEN <<>>
    ELSE <<Entry(dname, sname, TRUE, Head(inds))>>
         \o SubEntries(dname, sname, Tail(inds))

RECURSIVE DomEntries(_, _)
DomEntries(dname, subs) ==
    IF subs = <<>> THEN <<>>
    ELSE (IF Head(subs).has_name
          THEN SubEntries(dname, Head(subs).name, Head(subs).indicators)
          ELSE <<Entry(dname, "", FALSE, IndNoName)>>)
         \o DomEntries(dname, Tail(subs))

RECURSIVE Entries(_)
Entries(ds) ==
    IF ds = <<>> THEN <<>>
    ELSE DomEntries(Head(ds).name, Head(ds).subdomains) \o Entries(Tail(ds))

Names(seq) == {seq[i].name : i \in DOMAIN seq}

-----------------------------------------------------------------------------
\* Live state at the start: the catalog is empty, or holds domain A with
\* indicator x whose resources are one of the shapes the backfill handles.

InitialLinks == {<<>>, <<SENTINEL>>, <<SYNTHETIC>>, <<STALE>>, <<"res1">>}

IndicatorRecord(id, name, domain_id, subdomain, res, born) ==
    [id |-> id, name |-> name, domain |-> domain_id, subdomain |-> subdomain,
     resources |-> res, born |-> born]

-----------------------------------------------------------------------------
\* Outcome of one HTTP call as the client sees it: a 2xx response, another
\* status, or a RequestException.  A failed call leaves the service unchanged.

Outcomes == IF faults < MaxFaults THEN {"ok", "rejected", "error"} ELSE {"ok"}

\* A request as the run's log records it: its kind, whether it succeeded, the
\* name and indicator id it is about, the resource id it returned or carried,
\* the offset of a page request and the domain id an indicator-create is
\* addressed to.
Req(op, ok, name, ind, rid) ==
    [op |-> op, ok |-> ok, name |-> name, ind |-> ind, rid |-> rid, skip |-> 0,
     domain |-> 0]

\* Summary of a run, recorded when it ends (no step that ends a run writes).
Summary(code, lg) ==
    [exit |-> code,
     domainCreates |-> Cardinality({i \in DOMAIN lg : lg[i].op = "post_domain"}),
     indicatorCreates |-> Cardinality({i \in DOMAIN lg : lg[i].op = "post_indicator"}),
     failed |-> Cardinality({i \in DOMAIN lg : ~lg[i].ok}),
     nDomains |-> Len(domains),
     nIndicators |-> Len(indicators),
     nResources |-> Len(resources),
     log |-> lg,
     bf |-> bf_indicators]

\* sys.exit(code), or main() returning (code 0).
Exit(code, lg) ==
    /\ pc' = "done"
    /\ exit_code' = code
    /\ ends' = Append(ends, Summary(code, lg))

-----------------------------------------------------------------------------
\* get_all_indicators_with_pagination: request number failAt fails (0: none).
\* The service answers skip/limit with that slice of its listing.

\* Variant: the listing does not show the indicators created in this run.
Page_BeforeRun(store, skip, limit) ==
    LET old == SelectSeq(store, LAMBDA r : r.born # run) IN
    SubSeq(old, skip + 1, Min(skip + limit, Len(old)))

Page(store, skip, limit) == SubSeq(store, skip + 1, Min(skip + limit, Len(store)))

\* Variant: the offset moves one record too far.
NextSkip_OffByOne(skip, limit) == skip + limit + 1

\* skip += limit
NextSkip(skip, limit) == skip + limit

\* Variant: a failed request discards the pages already received.
ReturnOnBreak_Discard(acc) == <<>>

\* break, then return all_indicators: the pages received so far
ReturnOnBreak(acc) == acc

\* The loop from its n+1-th request on; skips lists the offsets requested.
RECURSIVE FetchPages(_, _, _, _, _)
FetchPages(store, skip, failAt, acc, n) ==
    IF n + 1 = failAt
    THEN [items |-> ReturnOnBreak(acc), requests |-> n + 1, failed |-> TRUE,
          skips |-> <<skip>>]
    ELSE LET page == Page(store, skip, PageLimit) IN
         IF page = <<>>
         THEN [items |-> acc, requests |-> n + 1, failed |-> FALSE,
               skips |-> <<skip>>]
         ELSE LET rest == FetchPages(store, NextSkip(skip, PageLimit), failAt,
                                     acc \o page, n + 1)
              IN [rest EXCEPT !.skips = <<skip>> \o @]

GetAllIndicatorsWithPagination(store, failAt) == FetchPages(store, 0, failAt, <<>>, 0)

\* The request that fails, among those a fetch of the live listing can make.
FailAts ==
    IF faults < MaxFaults THEN 0 .. (Len(indicators) \div PageLimit) + 2 ELSE {0}

\* The requests of a fetch, as the run's log records them.
FetchLog(f) ==
    [k \in 1 .. f.requests |->
        [Req("get_indicators", ~(f.failed /\ k = f.requests), "", 0, "")
            EXCEPT !.skip = f.skips[k]]]

\* Variant: the lookup is left empty.
GetExistingIndicators_Empty(items) == {}

\* get_existing_indicators: the lookup's keys.
GetExistingIndicators(items) == Names(items)

\* domain_id_map built from the listing: a later record of a name wins.
MapOfListing(listing) ==
    [n \in Names(listing) |->
        LET last == CHOOSE i \in DOMAIN listing :
                        /\ listing[i].name = n
                        /\ \A j \in DOMAIN listing : listing[j].name = n => j <= i
        IN listing[last].id]

\* Variant: a name without an entry gets the id 1.
MapGet_Default(m, n) == IF n \in DOMAIN m THEN m[n] ELSE 1

\* domain_id_map.get(name): 0 stands for None.
MapGet(m, n) == IF n \in DOMAIN m THEN m[n] ELSE 0

MapPut(m, n, v) == [k \in DOMAIN m \cup {n} |-> IF k = n THEN v ELSE m[k]]

-----------------------------------------------------------------------------
Init ==
    /\ doc \in Docs
    /\ \/ /\ domains = <<>>
          /\ indicators = <<>>
          /\ resources = <<>>
       \/ /\ domains = <<[id |-> 1, name |-> "A"]>>
          /\ \E links \in InitialLinks :
                indicators = <<IndicatorRecord(1, "x", 1, "s", links, 0)>>
          /\ resources = <<"res1">>
    /\ pc = "idle"
    /\ run = 0
    /\ exit_code = -1
    /\ health = "none"
    /\ existing_domain_names = {}
    /\ domain_id_map = <<>>
    /\ di = 1
    /\ existing_indicators = {}
    /\ ii = 1
    /\ total_indicators = 0
    /\ created_indicators = 0
    /\ skipped_indicators = 0
    /\ bf_indicators = <<>>
    /\ bi = 1
    /\ bf_total = 0
    /\ updated_indicators = 0
    /\ total_resources = 0
    /\ resource_id = ""
    /\ log = <<>>
    /\ faults = 0
    /\ ends = <<>>

\* The operator starts the tool (again): python complete_data_import.py
StartRun ==
    /\ pc \in {"idle", "done"}
    /\ run < MaxRuns
    /\ run' = run + 1
    /\ pc' = "health"
    /\ exit_code' = -1
    /\ health' = "none"
    /\ existing_domain_names' = {}
    /\ domain_id_map' = <<>>
    /\ di' = 1
    /\ existing_indicators' = {}
    /\ ii' = 1
    /\ total_indicators' = 0
    /\ created_indicators' = 0
    /\ skipped_indicators' = 0
    /\ bf_indicators' = <<>>
    /\ bi' = 1
    /\ bf_total' = 0
    /\ updated_indicators' = 0
    /\ total_resources' = 0
    /\ resource_id' = ""
    /\ log' = <<>>
    /\ UNCHANGED <<services, doc, faults, ends>>

\* Variant: any response counts as healthy, whatever its status.
HealthOK_AnyResponse(o) == o # "error"

\* check_service_health: True only for a response with status 200
HealthOK(o) == o = "ok"

\* main: check_service_health, sys.exit(1) when it returns False
CheckServiceHealth ==
    /\ pc = "health"
    /\ \E o \in Outcomes :
        /\ health' = o
        /\ log' = Append(log, Req("health", o = "ok", "", 0, ""))
        /\ faults' = IF o = "ok" THEN faults ELSE faults + 1
        /\ IF HealthOK(o)
           THEN pc' = "load" /\ UNCHANGED <<exit_code, ends>>
           ELSE Exit(1, log')
    /\ UNCHANGED <<services, doc, run, importLocals, backfillLocals>>

\* import_complete_data: load DOMAINS_FILE, check the 'domains' key
LoadDomainsFile ==
    /\ pc = "load"
    /\ IF doc.loadable /\ doc.has_domains
       THEN pc' = "get_domains" /\ UNCHANGED <<exit_code, ends>>
       ELSE Exit(1, log)
    /\ UNCHANGED <<services, doc, run, health, importLocals, backfillLocals,
                   log, faults>>

\* import_complete_data: get_existing_domains and the initial domain_id_map
GetExistingDomains ==
    /\ pc = "get_domains"
    /\ \E o \in Outcomes :
        LET existing_domains == IF o = "ok" THEN domains ELSE <<>> IN
        /\ existing_domain_names' = Names(existing_domains)
        /\ domain_id_map' = MapOfListing(existing_domains)
        /\ log' = Append(log, Req("get_domains", o = "ok", "", 0, ""))
        /\ faults' = IF o = "ok" THEN faults ELSE faults + 1
    /\ di' = 1
    /\ pc' = "domains"
    /\ UNCHANGED <<services, doc, run, exit_code, health, existing_indicators, ii,
                   total_indicators, created_indicators, skipped_indicators,
                   backfillLocals, ends>>

\* The catalog service stores a created domain (POST /domains/).
StoreDomain(ds, name) == Append(ds, [id |-> NewId(ds), name |-> name])

\* The catalog service stores a created indicator, with no resources yet
\* (POST /indicators/{domain_id}/{subdomain_name}/).
StoreIndicator(inds, name, domain_id, subdomain) ==
    Append(inds, IndicatorRecord(NewId(inds), name, domain_id, subdomain, <<>>, run))

\* The resource service stores a created resource (POST /resources/).
StoreResource(listing) == Append(listing, NewResourceId(listing))

\* Variant: the link is written with the wrapper id, not the resource id.
LinkResource_WrapperId(inds, ind_id, rid) ==
    [i \in DOMAIN inds |->
        IF inds[i].id = ind_id
        THEN [inds[i] EXCEPT !.resources = Append(@, "wrapper_" \o ToString(ind_id))]
        ELSE inds[i]]

\* The catalog service adds a resource id to an indicator
\* (POST /indicators/{indicator_id}/resources, "Add a resource to an indicator").
LinkResource(inds, ind_id, rid) ==
    [i \in DOMAIN inds |->
        IF inds[i].id = ind_id
        THEN [inds[i] EXCEPT !.resources = Append(@, rid)]
        ELSE inds[i]]

\* Variant: no name is taken to exist already.
AlreadyExists_Never(name, names) == FALSE

\* if domain_name in existing_domain_names / if indicator_name in
\* existing_indicators
AlreadyExists(name, names) == name \in names

\* An uncaught KeyError ends the process with a traceback and status 1.
KeyError == Exit(1, log)

\* domain_json['name'], and subdomain['name'] for a domain that is not skipped
DomainKeyError(d, existing) ==
    \/ ~d.has_name
    \/ /\ ~AlreadyExists(d.name, existing)
       /\ \E k \in DOMAIN d.subdomains : ~d.subdomains[k].has_name

\* Variant: the indicators of a domain are created right after the domain.
DomainRequests_PerDomain(name, ok) ==
    <<Req("post_domain", ok, name, 0, ""), Req("post_indicator", ok, name, 0, "")>>

\* The requests of one iteration of the domain loop that creates a domain:
\* create_domain's single POST /domains/.
DomainRequests(name, ok) == <<Req("post_domain", ok, name, 0, "")>>

\* import_complete_data, domain phase: one iteration of the loop over
\* domains_data['domains']
DomainStep ==
    /\ pc = "domains"
    /\ di <= Len(doc.domains)
    /\ LET domain_name == doc.domains[di].name IN
       IF DomainKeyError(doc.domains[di], existing_domain_names)
       THEN /\ KeyError
            /\ UNCHANGED <<domains, domain_id_map, log, faults, di>>
       ELSE /\ IF AlreadyExists(domain_name, existing_domain_names)
               THEN UNCHANGED <<domains, domain_id_map, log, faults>>
               ELSE \E o \in Outcomes :
                       /\ log' = log \o DomainRequests(domain_name, o = "ok")
                       /\ faults' = IF o = "ok" THEN faults ELSE faults + 1
                       /\ IF o = "ok"
                          THEN /\ domains' = StoreDomain(domains, domain_name)
                               /\ domain_id_map' =
                                      MapPut(domain_id_map, domain_name, NewId(domains))
                          ELSE UNCHANGED <<domains, domain_id_map>>
            /\ di' = di + 1
            /\ UNCHANGED <<pc, exit_code, ends>>
    /\ UNCHANGED <<indicators, resources, doc, run, health,
                   existing_domain_names, existing_indicators, ii,
                   total_indicators, created_indicators, skipped_indicators,
                   backfillLocals>>

\* import_complete_data, indicator discovery: get_existing_indicators
DiscoverIndicators ==
    /\ pc = "domains"
    /\ di > Len(doc.domains)
    /\ \E failAt \in FailAts :
        LET f == GetAllIndicatorsWithPagination(indicators, failAt) IN
        /\ existing_indicators' = GetExistingIndicators(f.items)
        /\ log' = log \o FetchLog(f)
        /\ faults' = IF f.failed THEN faults + 1 ELSE faults
    /\ ii' = 1
    /\ total_indicators' = 0
    /\ created_indicators' = 0
    /\ skipped_indicators' = 0
    /\ pc' = "indicators"
    /\ UNCHANGED <<services, doc, run, exit_code, health, existing_domain_names,
                   domain_id_map, di, backfillLocals, ends>>

\* subdomain['name'], indicator_json['name'], and
\* indicator_json['characteristics'] for an indicator that is not skipped
IndicatorKeyError(e, existing) ==
    \/ ~e.sub_has_name
    \/ ~e.has_name
    \/ ~AlreadyExists(e.name, existing) /\ ~e.has_characteristics

\* Variant: an indicator is counted as created whatever the answer.
IndicatorCreated_Always(o) == TRUE

\* if create_indicator(...): True on a 200/201 response, False otherwise
IndicatorCreated(o) == o = "ok"

\* Variant: the loop is left at the first create that fails.
NextEntry_BreakOnFailure(i, o) ==
    IF o = "ok" THEN i + 1 ELSE Len(Entries(doc.domains)) + 1

\* The loop goes on to the next indicator whatever create_indicator returned.
NextEntry(i, o) == i + 1

\* import_complete_data, indicator phase: one indicator entry of the nested
\* loops (an entry under a domain without an id is passed over uncounted)
IndicatorStep ==
    /\ pc = "indicators"
    /\ ii <= Len(Entries(doc.domains))
    /\ LET e == Entries(doc.domains)[ii]
           domain_id == MapGet(domain_id_map, e.domain)
       IN
       IF domain_id = 0
       THEN /\ ii' = ii + 1
            /\ UNCHANGED <<indicators, total_indicators, created_indicators,
                           skipped_indicators, log, faults, pc, exit_code, ends>>
       ELSE IF IndicatorKeyError(e, existing_indicators)
       THEN /\ total_indicators' =
                   IF e.sub_has_name THEN total_indicators + 1 ELSE total_indicators
            /\ KeyError
            /\ UNCHANGED <<indicators, created_indicators, skipped_indicators,
                           log, faults, ii>>
       ELSE /\ total_indicators' = total_indicators + 1
            /\ UNCHANGED <<pc, exit_code, ends>>
            /\ IF AlreadyExists(e.name, existing_indicators)
               THEN /\ skipped_indicators' = skipped_indicators + 1
                    /\ ii' = ii + 1
                    /\ UNCHANGED <<indicators, created_indicators, log, faults>>
               ELSE \E o \in Outcomes :
                       /\ log' = Append(log,
                                   [Req("post_indicator", o = "ok", e.name, 0, "")
                                        EXCEPT !.domain = domain_id])
                       /\ faults' = IF o = "ok" THEN faults ELSE faults + 1
                       /\ indicators' =
                              IF o = "ok"
                              THEN StoreIndicator(indicators, e.name, domain_id,
                                                  e.subdomain)
                              ELSE indicators
                       /\ created_indicators' =
                              IF IndicatorCreated(o)
                              THEN created_indicators + 1
                              ELSE created_indicators
                       /\ ii' = NextEntry(ii, o)
                       /\ UNCHANGED skipped_indicators
    /\ UNCHANGED <<domains, resources, doc, run, health,
                   existing_domain_names, domain_id_map, di, existing_indicators,
                   backfillLocals>>

\* import_complete_data: return created_indicators > 0
ImportResult(created) == created > 0

\* main: the branch on import_complete_data's result
ImportReturn ==
    /\ pc = "indicators"
    /\ ii > Len(Entries(doc.domains))
    /\ IF ImportResult(created_indicators)
       THEN pc' = "bf_fetch" /\ UNCHANGED <<exit_code, ends>>
       ELSE Exit(1, log)
    /\ UNCHANGED <<services, doc, run, health, importLocals, backfillLocals,
                   log, faults>>

-----------------------------------------------------------------------------
\* add_resources_to_all_indicators

\* Variant: the sentinel test looks at the first reference of any list.
IsSentinel_AnyLength(existing) == existing # <<>> /\ existing[1] = SENTINEL

\* len(existing_resources) == 1 and existing_resources[0] == "string"
IsSentinel(existing) == Len(existing) = 1 /\ existing[1] = SENTINEL

\* len(existing_resources) == 1 and existing_resources[0].endswith('_resource')
IsSynthetic(existing) == Len(existing) = 1 /\ EndsWith(existing[1], RESOURCE_SUFFIX)

\* The branch that asks the resource service for its listing.
NeedsExistenceCheck(existing) ==
    /\ existing # <<>>
    /\ ~IsSentinel(existing)
    /\ ~IsSynthetic(existing)

\* any(r.get('id') == existing_resource_id for r in resources_list)
ResourceExists(listing, rid) == \E i \in DOMAIN listing : listing[i] = rid

\* Variant: an existence check that fails leaves the indicator alone.
SkipsIndicator_FailClosed(existing, o, listing) ==
    /\ NeedsExistenceCheck(existing)
    /\ (o # "ok" \/ ResourceExists(listing, existing[1]))

\* Variant: the 'continue' of the exists branch is missing.
SkipsIndicator_NoContinue(existing, o, listing) == FALSE

\* The indicator is passed over: the listing was received and holds
\* existing_resources[0].
SkipsIndicator(existing, o, listing) ==
    /\ NeedsExistenceCheck(existing)
    /\ o = "ok"
    /\ ResourceExists(listing, existing[1])

\* The indicators are fetched; none found returns False to main
BackfillFetch ==
    /\ pc = "bf_fetch"
    /\ \E failAt \in FailAts :
        LET f == GetAllIndicatorsWithPagination(indicators, failAt) IN
        /\ bf_indicators' = f.items
        /\ log' = log \o FetchLog(f)
        /\ faults' = IF f.failed THEN faults + 1 ELSE faults
        /\ pc' = IF f.items = <<>> THEN "test_api" ELSE "bf"
    /\ bi' = 1
    /\ bf_total' = 0
    /\ updated_indicators' = 0
    /\ total_resources' = 0
    /\ resource_id' = ""
    /\ UNCHANGED <<services, doc, run, exit_code, health, importLocals, ends>>

\* One indicator of the loop, up to the decision to create a resource
BackfillExamine ==
    /\ pc = "bf"
    /\ bi <= Len(bf_indicators)
    /\ bf_total' = bf_total + 1
    /\ LET existing == bf_indicators[bi].resources IN
       IF NeedsExistenceCheck(existing)
       THEN \E o \in Outcomes :
               /\ log' = Append(log, Req("get_resources", o = "ok",
                                         bf_indicators[bi].name,
                                         bf_indicators[bi].id, existing[1]))
               /\ faults' = IF o = "ok" THEN faults ELSE faults + 1
               /\ IF SkipsIndicator(existing, o, resources)
                  THEN pc' = "bf" /\ bi' = bi + 1
                  ELSE pc' = "bf_create" /\ bi' = bi
       ELSE /\ pc' = "bf_create"
            /\ UNCHANGED <<bi, log, faults>>
    /\ UNCHANGED <<services, doc, run, exit_code, health, importLocals,
                   bf_indicators, updated_indicators, total_resources,
                   resource_id, ends>>

\* Variant: the link is written whatever create_resource_in_service returned.
ResourceCreated_Always(rid) == TRUE

\* if resource_id: ("" stands for None)
ResourceCreated(rid) == rid # ""

\* Variant: the link write is taken to have failed whatever the answer.
LinkOK_Never(o) == FALSE

\* Variant: the link write is taken to have succeeded whatever the answer.
LinkOK_Always(o) == TRUE

\* add_resource_to_indicator returns True on 200 or 201 only
LinkOK(o) == o = "ok"

\* create_resource_in_service for the indicator under examination
BackfillCreateResource ==
    /\ pc = "bf_create"
    /\ \E o \in Outcomes :
        /\ log' = Append(log, Req("post_resource", o = "ok", bf_indicators[bi].name,
                                  bf_indicators[bi].id,
                                  IF o = "ok" THEN NewResourceId(resources) ELSE ""))
        /\ faults' = IF o = "ok" THEN faults ELSE faults + 1
        /\ resources' = IF o = "ok" THEN StoreResource(resources) ELSE resources
        /\ resource_id' = IF o = "ok" THEN NewResourceId(resources) ELSE ""
        /\ IF ResourceCreated(resource_id')
           THEN pc' = "bf_link" /\ bi' = bi
           ELSE pc' = "bf" /\ bi' = bi + 1
    /\ UNCHANGED <<domains, indicators, doc, run, exit_code, health, importLocals,
                   bf_indicators, bf_total, updated_indicators, total_resources,
                   ends>>

\* add_resource_to_indicator with the resource just created
BackfillLink ==
    /\ pc = "bf_link"
    /\ \E o \in Outcomes :
        /\ log' = Append(log, Req("post_link", o = "ok", bf_indicators[bi].name,
                                  bf_indicators[bi].id, resource_id))
        /\ faults' = IF o = "ok" THEN faults ELSE faults + 1
        /\ indicators' = IF o = "ok"
                          THEN LinkResource(indicators, bf_indicators[bi].id,
                                            resource_id)
                          ELSE indicators
        /\ IF LinkOK(o)
           THEN /\ updated_indicators' = updated_indicators + 1
                /\ total_resources' = total_resources + 1
           ELSE UNCHANGED <<updated_indicators, total_resources>>
    /\ pc' = "bf"
    /\ bi' = bi + 1
    /\ UNCHANGED <<domains, resources, doc, run, exit_code, health, importLocals,
                   bf_indicators, bf_total, resource_id, ends>>

\* The loop is over: the summary is printed and updated_indicators > 0 returned
BackfillReturn ==
    /\ pc = "bf"
    /\ bi > Len(bf_indicators)
    /\ pc' = "test_api"
    /\ UNCHANGED <<services, doc, run, exit_code, health, importLocals,
                   backfillLocals, log, faults, ends>>

\* add_resources_to_all_indicators: return updated_indicators > 0 (False
\* too when no indicator was fetched)
BackfillResult(updated) == updated > 0

\* Variant: a pass that updated nothing makes the process fail.
MainStatus_FailOnIssues(backfill_ok) == IF backfill_ok THEN 0 ELSE 1

\* main: both branches on the backfill's result only print; main then
\* returns and the process ends with status 0
MainStatus(backfill_ok) == 0

\* main: test_api_endpoints (reads only, errors swallowed), then main returns
TestApiEndpoints ==
    /\ pc = "test_api"
    /\ log' = Append(log, Req("test_api", TRUE, "", 0, ""))
    /\ Exit(MainStatus(BackfillResult(updated_indicators)), log')
    /\ UNCHANGED <<services, doc, run, health, importLocals, backfillLocals, faults>>

Next ==
    \/ StartRun
    \/ CheckServiceHealth
    \/ LoadDomainsFile
    \/ GetExistingDomains
    \/ DomainStep
    \/ DiscoverIndicators
    \/ IndicatorStep
    \/ ImportReturn
    \/ BackfillFetch
    \/ BackfillExamine
    \/ BackfillCreateResource
    \/ BackfillLink
    \/ BackfillReturn
    \/ TestApiEndpoints

Spec == Init /\ [][Next]_vars

-----------------------------------------------------------------------------
\* Vocabulary of the properties.

NoDuplicateNames(records) ==
    \A i, j \in DOMAIN records : records[i].name = records[j].name => i = j

\* The document's domain names are pairwise distinct, and so are its
\* indicator names.
DistinctNames(d) ==
    /\ NoDuplicateNames(d.domains)
    /\ NoDuplicateNames(Entries(d.domains))

\* Requests of kind op in a run's log.
Reqs(lg, op) == {i \in DOMAIN lg : lg[i].op = op}

\* Requests of kind op about the indicator with id ind.
ReqsFor(lg, op, ind) == {i \in DOMAIN lg : lg[i].op = op /\ lg[i].ind = ind}

\* The live indicator with the given id.
Live(ind) == indicators[CHOOSE i \in DOMAIN indicators : indicators[i].id = ind]

-----------------------------------------------------------------------------
C2_NamesUnique ==
    /\ NoDuplicateNames(domains)
    /\ NoDuplicateNames(indicators)

\* Requests of kind op about indicator ind that succeeded.
OkReqsFor(lg, op, ind) == {i \in ReqsFor(lg, op, ind) : lg[i].ok}

\* The backfill pass of the current run ran over some indicators and is over.
PassOver == pc \in {"test_api", "done"} /\ bf_indicators # <<>>

\* In the current pass a resource was created for the indicator and linked.
Backfilled(ind) ==
    /\ OkReqsFor(log, "post_resource", ind) # {}
    /\ OkReqsFor(log, "post_link", ind) # {}

\* Some reference of the live indicator is in the resource service's listing.
HasLiveResource(rec) ==
    \E j \in DOMAIN rec.resources : ResourceExists(resources, rec.resources[j])

\* C3 (placeholder replacement): an indicator whose resources were exactly
\* the sentinel "string" when the pass fetched it, and for which the pass
\* created a resource and wrote the link, has after the pass exactly one
\* resource reference, and it is not the sentinel.
C3_PlaceholderReplaced ==
    PassOver =>
        \A k \in DOMAIN bf_indicators :
            (/\ IsSentinel(bf_indicators[k].resources)
             /\ Backfilled(bf_indicators[k].id))
            => /\ Len(Live(bf_indicators[k].id).resources) = 1
               /\ Live(bf_indicators[k].id).resources[1] # SENTINEL

\* C4 (broken-link repair): an indicator whose sole resource reference is not
\* in the resource service's listing, and for which the pass created a
\* resource and wrote the link, has after the pass a reference that is in the
\* listing.
C4_BrokenLinkRepaired ==
    PassOver =>
        \A k \in DOMAIN bf_indicators :
            (/\ Len(bf_indicators[k].resources) = 1
             /\ ~ResourceExists(resources, bf_indicators[k].resources[1])
             /\ Backfilled(bf_indicators[k].id))
            => HasLiveResource(Live(bf_indicators[k].id))

\* A pass repaired the indicator whose sole reference was the stale id.
C4_Witness ==
    /\ PassOver
    /\ \E k \in DOMAIN bf_indicators :
        /\ bf_indicators[k].resources = <<STALE>>
        /\ ~ResourceExists(resources, STALE)
        /\ Backfilled(bf_indicators[k].id)

\* The indicator fetched by the pass has one reference, no placeholder, that
\* the resource service lists.
ValidLink(rec) ==
    /\ Len(rec.resources) = 1
    /\ NeedsExistenceCheck(rec.resources)
    /\ ResourceExists(resources, rec.resources[1])

C5_State ==
    \A k \in DOMAIN bf_indicators :
        (/\ ValidLink(bf_indicators[k])
         /\ OkReqsFor(log, "get_resources", bf_indicators[k].id) # {})
        => /\ ReqsFor(log, "post_resource", bf_indicators[k].id) = {}
           /\ ReqsFor(log, "post_link", bf_indicators[k].id) = {}
           /\ Live(bf_indicators[k].id).resources = bf_indicators[k].resources

C5_Step ==
    (/\ pc = "bf"
     /\ bi <= Len(bf_indicators)
     /\ ValidLink(bf_indicators[bi])
     /\ log' = Append(log, Req("get_resources", TRUE, bf_indicators[bi].name,
                               bf_indicators[bi].id,
                               bf_indicators[bi].resources[1])))
    => /\ pc' = "bf"
       /\ bi' = bi + 1
       /\ UNCHANGED <<services, updated_indicators, total_resources>>

\* C5 (valid-link stability): for an indicator whose sole reference is no
\* placeholder and is listed by the resource service, and whose existence
\* check got the listing, the pass issues no resource-create and no
\* link-write request, and the step that examines it leaves the indicator's
\* resources, the services and the update counters as they were.
C5_ValidLinkStable == []C5_State /\ [][C5_Step]_vars

\* A finished pass that passed over a valid link and backfilled another
\* indicator.
C5_Witness ==
    /\ PassOver
    /\ updated_indicators > 0
    /\ \E k \in DOMAIN bf_indicators :
        /\ ValidLink(bf_indicators[k])
        /\ OkReqsFor(log, "get_resources", bf_indicators[k].id) # {}

\* Every resource creation and every link write of the run succeeded.
PassClean(lg) ==
    \A i \in Reqs(lg, "post_resource") \cup Reqs(lg, "post_link") : lg[i].ok

\* C6 (backfill idempotence): when two consecutive runs both reach the
\* backfill pass and every resource creation and link write of the first pass
\* succeeded and no call of the second run failed, the second pass issues no
\* resource-create and no link-write request for any indicator the first pass
\* examined.
C6_BackfillIdempotent ==
    \A k \in 1 .. Len(ends) - 1 :
        (/\ ends[k].bf # <<>>
         /\ ends[k + 1].bf # <<>>
         /\ PassClean(ends[k].log)
         /\ ends[k + 1].failed = 0)
        => \A e \in DOMAIN ends[k].bf :
              /\ ReqsFor(ends[k + 1].log, "post_resource", ends[k].bf[e].id) = {}
              /\ ReqsFor(ends[k + 1].log, "post_link", ends[k].bf[e].id) = {}

\* C7 (single resource per indicator): every live indicator has at most one
\* resource reference.
C7_SingleResource ==
    \A i \in DOMAIN indicators : Len(indicators[i].resources) <= 1

\* C8 (re-run recovery): when a run after the first ends and none of its
\* calls failed, every indicator that an earlier run created is linked to a
\* resource the resource service lists.
C8_RerunRecovers ==
    (/\ pc = "done"
     /\ Len(ends) >= 2
     /\ ends[Len(ends)].failed = 0)
    => \A i \in DOMAIN indicators :
          (indicators[i].born >= 1 /\ indicators[i].born < run)
          => HasLiveResource(indicators[i])

\* C9 (exit status on success): a run whose health check passed and whose
\* import created a domain or an indicator, or found a desired domain or
\* indicator already present, ends with exit status 0.
C9_ExitZeroOnSuccess ==
    (/\ pc = "done"
     /\ health = "ok"
     /\ \/ \E i \in Reqs(log, "post_domain") : log[i].ok
        \/ created_indicators > 0
        \/ skipped_indicators > 0
        \/ Names(doc.domains) \cap existing_domain_names # {})
    => exit_code = 0

\* C10 (health gate): once the health probe has answered with another status
\* than 200 or raised, the run is over with exit status 1 and the probe is the
\* only request the run has issued.
C10_HealthGate ==
    health \in {"rejected", "error"}
    => /\ pc = "done"
       /\ exit_code = 1
       /\ log = <<Req("health", FALSE, "", 0, "")>>

\* A run stopped at a probe answered with a non-200 status, the services
\* holding data.
C10_Witness ==
    /\ health = "rejected"
    /\ pc = "done"
    /\ exit_code = 1
    /\ indicators # <<>>

\* The document cannot be read or lacks a required key.
Malformed(d) ==
    \/ ~d.loadable
    \/ ~d.has_domains
    \/ \E i \in DOMAIN d.domains :
          \/ ~d.domains[i].has_name
          \/ \E j \in DOMAIN d.domains[i].subdomains :
                LET sub == d.domains[i].subdomains[j] IN
                \/ ~sub.has_name
                \/ \E k \in DOMAIN sub.indicators :
                      \/ ~sub.indicators[k].has_name
                      \/ ~sub.indicators[k].has_characteristics

\* The requests that write to a service.
WriteOps == {"post_domain", "post_indicator", "post_resource", "post_link"}

Writes(lg) == {i \in DOMAIN lg : lg[i].op \in WriteOps}

\* C11 (malformed desired state): a run over a document that is unreadable or
\* lacks a required key ends with exit status 1 and has issued no create and
\* no link request.
C11_MalformedAbortsBeforeWrites ==
    (pc = "done" /\ health = "ok" /\ Malformed(doc))
    => /\ exit_code = 1
       /\ Writes(log) = {}

\* C12 (write ordering within a run): in a run's request log no
\* indicator-create precedes a domain-create and no resource-create or
\* link-write precedes an indicator-create; and the requests are issued one
\* after the other: no step of the run issues more than one write request.
C12_Order ==
    \A i, j \in DOMAIN log :
        i < j =>
            /\ ~(log[i].op = "post_indicator" /\ log[j].op = "post_domain")
            /\ ~(/\ log[i].op \in {"post_resource", "post_link"}
                 /\ log[j].op = "post_indicator")
            /\ ~(/\ log[i].op \in {"post_resource", "post_link"}
                 /\ log[j].op = "post_domain")

C12_OneAtATime ==
    Cardinality(Writes(log')) <= Cardinality(Writes(log)) + 1

C12_WriteOrdering == []C12_Order /\ [][C12_OneAtATime]_vars

\* A run that created two domains, then two indicators, then a resource that
\* it linked.
C12_Witness ==
    /\ pc = "done"
    /\ Cardinality(Reqs(log, "post_domain")) >= 2
    /\ Cardinality(Reqs(log, "post_indicator")) >= 2
    /\ Reqs(log, "post_resource") # {}
    /\ Reqs(log, "post_link") # {}

-----------------------------------------------------------------------------
\* get_all_indicators_with_pagination on its own, against a catalog service
\* that holds 0 .. MaxStore indicators.

MaxStore == 101

\* The listing of a catalog service that holds n indicators.
Store(n) ==
    [i \in 1 .. n |-> IndicatorRecord(i, "i" \o ToString(i), 1, "s", <<>>, 0)]

FetchInit ==
    /\ doc = Document(<<>>)
    /\ domains = <<[id |-> 1, name |-> "A"]>>
    /\ \E n \in 0 .. MaxStore : indicators = Store(n)
    /\ resources = <<>>
    /\ pc = "fetch"
    /\ run = 1
    /\ exit_code = -1
    /\ health = "ok"
    /\ existing_domain_names = {}
    /\ domain_id_map = <<>>
    /\ di = 1
    /\ existing_indicators = {}
    /\ ii = 1
    /\ total_indicators = 0
    /\ created_indicators = 0
    /\ skipped_indicators = 0
    /\ bf_indicators = <<>>
    /\ bi = 1
    /\ bf_total = 0
    /\ updated_indicators = 0
    /\ total_resources = 0
    /\ resource_id = ""
    /\ log = <<>>
    /\ faults = 0
    /\ ends = <<>>

\* One call: indicators = get_all_indicators_with_pagination()
FetchCall ==
    /\ pc = "fetch"
    /\ \E failAt \in FailAts :
        LET f == GetAllIndicatorsWithPagination(indicators, failAt) IN
        /\ bf_indicators' = f.items
        /\ log' = FetchLog(f)
        /\ faults' = IF f.failed THEN faults + 1 ELSE faults
    /\ pc' = "fetched"
    /\ UNCHANGED <<services, doc, run, exit_code, health, importLocals, bi,
                   bf_total, updated_indicators, total_resources, resource_id,
                   ends>>

FetchNext == FetchCall

SpecFetch == FetchInit /\ [][FetchNext]_vars

\* ceil(n / PageLimit)
Pages(n) == (n + PageLimit - 1) \div PageLimit

\* C13 (pagination completeness): when every request of a fetch succeeds, the
\* fetch returns exactly the service's records, each once and in the service's
\* order, after at most ceil(N/50)+1 requests, whatever N (0 and the exact
\* multiples of 50 included).
C13_PaginationComplete ==
    (pc = "fetched" /\ faults = 0)
    => /\ bf_indicators = indicators
       /\ Len(log) <= Pages(Len(indicators)) + 1

\* A fetch without failure of a listing of exactly two full pages.
C13_Witness ==
    /\ pc = "fetched"
    /\ faults = 0
    /\ Len(indicators) = 2 * PageLimit
    /\ Len(log) = 3

\* The records of the first k pages of the live listing.
FirstPages(k) == SubSeq(indicators, 1, Min(Len(indicators), k * PageLimit))

\* C14 (fetcher termination and degradation): a fetch requests the offsets
\* 0, 50, 100, ... in this order; every request but its last succeeded and
\* returned a non-empty page, and its last either failed or returned an empty
\* page; it returns the concatenation of the pages received before the last
\* request; and it ends (with a value, never an error) after at most
\* ceil(N/50)+1 requests.
C14_FetcherDegrades ==
    pc = "fetched"
    => /\ Len(log) >= 1
       /\ \A k \in DOMAIN log : log[k].skip = (k - 1) * PageLimit
       /\ \A k \in 1 .. Len(log) - 1 :
            log[k].ok /\ log[k].skip < Len(indicators)
       /\ \/ ~log[Len(log)].ok
          \/ log[Len(log)].skip >= Len(indicators)
       /\ bf_indicators = FirstPages(Len(log) - 1)
       /\ Len(log) <= Pages(Len(indicators)) + 1

\* A fetch whose third request failed while the service held more than two
\* pages: the two pages received are returned.
C14_Witness ==
    /\ pc = "fetched"
    /\ Len(indicators) > 2 * PageLimit
    /\ Len(log) = 3
    /\ ~log[3].ok
    /\ Len(bf_indicators) = 2 * PageLimit

-----------------------------------------------------------------------------
\* The indicator loops have been entered in the current run.
InIndicatorPhase ==
    pc \in {"indicators", "bf_fetch", "bf", "bf_create", "bf_link", "test_api"}
    \/ (pc = "done" /\ Reqs(log, "get_indicators") # {})

\* The entry lies under a domain with an id and has a name that the snapshot
\* does not hold.
Eligible(e) ==
    /\ MapGet(domain_id_map, e.domain) # 0
    /\ e.has_name
    /\ e.name \notin existing_indicators

\* The indicator-create requests of the log that carry the name n.
CreatesNamed(lg, n) == {i \in Reqs(lg, "post_indicator") : lg[i].name = n}

\* The eligible entries named n among the first k of the entries es.
EligibleNamed(es, k, n) == {j \in 1 .. k : es[j].name = n /\ Eligible(es[j])}

-----------------------------------------------------------------------------
\* The backfill pass of the current run has fetched its indicators.
InPass == pc \in {"bf", "bf_create", "bf_link", "test_api", "done"}

\* C16 (backfill step protocol): in a pass, for each indicator record, at
\* most one resource-create and at most one link-write are issued; every
\* link-write comes after a resource-create for the same indicator that
\* returned an id, and carries that id; after a failed resource-create there
\* is no link-write for the indicator and the pass has moved past it.
C16_BackfillStepProtocol ==
    InPass =>
        \A k \in DOMAIN bf_indicators :
            LET ind == bf_indicators[k].id
                creates == ReqsFor(log, "post_resource", ind)
                links == ReqsFor(log, "post_link", ind)
            IN /\ Cardinality(creates) <= 1
               /\ Cardinality(links) <= 1
               /\ \A j \in links :
                     \E i \in creates :
                        /\ i < j
                        /\ log[i].ok
                        /\ log[i].rid # ""
                        /\ log[j].rid = log[i].rid
               /\ \A i \in creates :
                     ~log[i].ok => links = {} /\ bi > k

\* A pass in which the resource creation failed for one indicator and, for a
\* later one, a resource was created and the link written.
C16_Witness ==
    /\ PassOver
    /\ \E k, m \in DOMAIN bf_indicators :
          /\ k < m
          /\ \E i \in ReqsFor(log, "post_resource", bf_indicators[k].id) : ~log[i].ok
          /\ ReqsFor(log, "post_link", bf_indicators[m].id) # {}

-----------------------------------------------------------------------------
\* The domain-create requests of the log that returned an id.
CreatedDomainNames(lg) == {lg[i].name : i \in {j \in Reqs(lg, "post_domain") : lg[j].ok}}

\* The listing GET /domains/ returned at the start of the run: the live
\* domains less those the run has created since, or nothing if it failed.
ListedDomains ==
    IF \E i \in Reqs(log, "get_domains") : log[i].ok
    THEN SubSeq(domains, 1,
                Len(domains) - Cardinality({j \in Reqs(log, "post_domain") : log[j].ok}))
    ELSE <<>>

\* The entry lies under a domain that has an entry in the name-to-id map.
Resolved(e) == e.domain \in DOMAIN domain_id_map

\* C17 (unresolved domain blocks its indicators): once the domain phase is
\* over, the name-to-id map holds exactly the listed domains and the domains
\* whose create returned an id, each with the id of a live domain of that
\* name; every indicator-create is addressed to the id the map holds for the
\* domain of an entry of that name, so none is issued for an entry under a
\* domain without an entry in the map; and the entries under the other
\* domains are processed all the same: those passed so far were all counted.
C17_UnresolvedDomainBlocks ==
    InIndicatorPhase =>
        LET entries == Entries(doc.domains) IN
        /\ DOMAIN domain_id_map = Names(ListedDomains) \cup CreatedDomainNames(log)
        /\ \A n \in DOMAIN domain_id_map :
              \E d \in DOMAIN domains :
                 domains[d].name = n /\ domains[d].id = domain_id_map[n]
        /\ \A i \in Reqs(log, "post_indicator") :
              \E k \in DOMAIN entries :
                 /\ entries[k].name = log[i].name
                 /\ Resolved(entries[k])
                 /\ log[i].domain = domain_id_map[entries[k].domain]
        /\ pc = "indicators" =>
              total_indicators
                  = Cardinality({k \in 1 .. ii - 1 : Resolved(entries[k])})
        /\ (pc # "indicators" /\ ~Malformed(doc)) =>
              total_indicators
                  = Cardinality({k \in DOMAIN entries : Resolved(entries[k])})

\* A run in which the create of one domain failed, its indicator got no
\* request, and the indicator of a later domain was created.
C17_Witness ==
    /\ pc = "done"
    /\ Reqs(log, "get_indicators") # {}
    /\ LET entries == Entries(doc.domains) IN
       \E k, m \in DOMAIN entries :
          /\ k < m
          /\ ~Resolved(entries[k])
          /\ CreatesNamed(log, entries[k].name) = {}
          /\ Resolved(entries[m])
          /\ \E i \in CreatesNamed(log, entries[m].name) : log[i].ok

-----------------------------------------------------------------------------
\* The names of the indicators that were live when the run began.
NamesBeforeRun == {indicators[i].name : i \in {j \in DOMAIN indicators : indicators[j].born # run}}

\* The entry has a name that the snapshot of phase 2 holds.
InSnapshot(e) == e.has_name /\ e.name \in existing_indicators

\* No domain-create carries a listed name and no indicator-create a name of
\* the snapshot; the snapshot holds live names only, all of them when the
\* fetch did not fail.
NoCreateOfExisting ==
    /\ \A i \in Reqs(log, "post_domain") : log[i].name \notin Names(ListedDomains)
    /\ \A i \in Reqs(log, "post_indicator") : log[i].name \notin existing_indicators
    /\ existing_indicators \subseteq NamesBeforeRun
    /\ (pc = "indicators" /\ \A i \in Reqs(log, "get_indicators") : log[i].ok)
          => existing_indicators = NamesBeforeRun

-----------------------------------------------------------------------------
\* After the existence check logged at position i, a resource-create was
\* issued for the same indicator, or is the next request of the pass.
CreateFollows(i) ==
    \/ \E j \in ReqsFor(log, "post_resource", log[i].ind) : j > i
    \/ /\ pc = "bf_create"
       /\ bf_indicators[bi].id = log[i].ind
       /\ i = Len(log)

\* C19 (fail-open existence check): when the resource-listing request made
\* for an indicator fails (non-200 status or error), a resource-create is
\* issued for the indicator, as it is when the listing is received and does
\* not hold the indicator's reference.
C19_FailOpen ==
    InPass =>
        \A i \in Reqs(log, "get_resources") :
            (~log[i].ok \/ ~ResourceExists(resources, log[i].rid))
            => CreateFollows(i)

\* A pass in which the existence check failed for an indicator whose
\* reference the resource service does hold, and a resource was created for
\* it all the same.
C19_Witness ==
    /\ PassOver
    /\ \E i \in Reqs(log, "get_resources") :
          /\ ~log[i].ok
          /\ ResourceExists(resources, log[i].rid)
          /\ \E j \in ReqsFor(log, "post_resource", log[i].ind) : j > i /\ log[j].ok

-----------------------------------------------------------------------------
\* The link-write issued for the indicator in the current pass failed.
LinkFailed(ind) == \E j \in ReqsFor(log, "post_link", ind) : ~log[j].ok

\* C20 (partial-failure accounting): in a pass, updated_indicators counts
\* exactly the indicators whose resource creation and link write both
\* succeeded; an indicator whose resource was created and whose link write
\* failed is not among them, has had one resource-create and one link-write
\* and no more, and the pass has moved past it.
C20_PartialFailureAccounting ==
    InPass =>
        /\ updated_indicators
              = Cardinality({k \in DOMAIN bf_indicators : Backfilled(bf_indicators[k].id)})
        /\ \A k \in DOMAIN bf_indicators :
              LET ind == bf_indicators[k].id IN
              (OkReqsFor(log, "post_resource", ind) # {} /\ LinkFailed(ind))
              => /\ ~Backfilled(ind)
                 /\ Cardinality(ReqsFor(log, "post_resource", ind)) = 1
                 /\ Cardinality(ReqsFor(log, "post_link", ind)) = 1
                 /\ bi > k

\* A pass that created a resource for an indicator and failed to link it,
\* and updated a later indicator.
C20_Witness ==
    /\ PassOver
    /\ updated_indicators >= 1
    /\ \E k, m \in DOMAIN bf_indicators :
          /\ k < m
          /\ OkReqsFor(log, "post_resource", bf_indicators[k].id) # {}
          /\ LinkFailed(bf_indicators[k].id)
          /\ Backfilled(bf_indicators[m].id)

-----------------------------------------------------------------------------
\* The orphans a log shows: the ids carried by its failed link-writes.
OrphansOf(lg) == {lg[j].rid : j \in {i \in Reqs(lg, "post_link") : ~lg[i].ok}}

\* The orphans of all runs so far.
Orphans == OrphansOf(log) \cup UNION {OrphansOf(ends[k].log) : k \in DOMAIN ends}

\* Some live indicator references the resource id.
Referenced(rid) ==
    \E i \in DOMAIN indicators :
        \E j \in DOMAIN indicators[i].resources : indicators[i].resources[j] = rid

\* The placeholder and empty cases, which need no request to be decided.
NeedsBackfillOutright(existing) ==
    existing = <<>> \/ IsSentinel(existing) \/ IsSynthetic(existing)

\* C21 (orphans are never reconciled): a resource whose link write failed
\* stays in the resource service and is referenced by no indicator, in its own
\* run and in every later one; no later resource-create returns its id and no
\* later link-write carries it; and a pass that comes to an indicator whose
\* resources are empty or a placeholder issues a resource-create for it,
\* orphan or no orphan.
C21_OrphansNeverReconciled ==
    /\ \A r \in Orphans :
          /\ ResourceExists(resources, r)
          /\ ~Referenced(r)
          /\ \A i \in DOMAIN log :
                (log[i].rid = r /\ log[i].op \in {"post_resource", "post_link"})
                => r \in OrphansOf(log)
    /\ InPass =>
          \A k \in 1 .. Min(bi - 1, Len(bf_indicators)) :
              NeedsBackfillOutright(bf_indicators[k].resources)
              => ReqsFor(log, "post_resource", bf_indicators[k].id) # {}

\* A run left an orphan for an indicator, and the pass of a later run has
\* created another resource for the same indicator and linked it.
C21_Witness ==
    /\ PassOver
    /\ \E k \in DOMAIN ends :
          /\ k < run
          /\ \E j \in Reqs(ends[k].log, "post_link") :
                /\ ~ends[k].log[j].ok
                /\ \E i \in OkReqsFor(log, "post_link", ends[k].log[j].ind) :
                      log[i].rid # ends[k].log[j].rid

-----------------------------------------------------------------------------
\* C22 (memoized existence check): within one backfill pass the resource
\* service's listing is requested at most once.
C22_ListingRequestedOnce == Cardinality(Reqs(log, "get_resources")) <= 1

-----------------------------------------------------------------------------
\* The position of the last indicator-create of the log (0: none).
LastCreate(lg) ==
    IF Reqs(lg, "post_indicator") = {} THEN 0
    ELSE CHOOSE i \in Reqs(lg, "post_indicator") :
            \A j \in Reqs(lg, "post_indicator") : j <= i

\* The backfill's indicator fetch of the current run was made and no request
\* of it failed.
BackfillFetchClean ==
    /\ InPass
    /\ \E i \in Reqs(log, "get_indicators") : i > LastCreate(log)
    /\ \A i \in Reqs(log, "get_indicators") : i > LastCreate(log) => log[i].ok

\* C23 (backfill sees this run's creations): when the backfill's indicator
\* fetch succeeded completely, every indicator created in the indicator phase
\* of the same run is among the indicators of the pass, with empty resources;
\* once the pass has come to it, it has been counted and a resource-create
\* has been issued for it.
C23_BackfillSeesCreations ==
    BackfillFetchClean =>
        \A i \in DOMAIN indicators :
            indicators[i].born = run =>
                \E k \in DOMAIN bf_indicators :
                    /\ bf_indicators[k].id = indicators[i].id
                    /\ bf_indicators[k].resources = <<>>
                    /\ bi > k =>
                          /\ bf_total >= k
                          /\ ReqsFor(log, "post_resource", indicators[i].id) # {}

\* A finished pass after a clean fetch, over an indicator that was live
\* before the run and two that the run created.
C23_Witness ==
    /\ PassOver
    /\ BackfillFetchClean
    /\ \E i \in DOMAIN indicators : indicators[i].born # run
    /\ Cardinality({i \in DOMAIN indicators : indicators[i].born = run}) >= 2
    /\ bf_total = Len(indicators)

-----------------------------------------------------------------------------
\* The document of the scenario: one domain, one subdomain, one indicator.
SingleIndicatorDoc == Document(<<Dom("A", <<Sub("s", <<Ind("x")>>)>>)>>)

\* The first two runs were over the scenario's document against services that
\* were empty at the start, and no call of either failed.
TwoCleanRunsFromEmpty ==
    /\ doc = SingleIndicatorDoc
    /\ Len(ends) >= 2
    /\ ends[1].failed = 0
    /\ ends[2].failed = 0
    /\ \A i \in DOMAIN indicators : indicators[i].born # 0

\* C24 (two-run scenario): the first run creates the domain and the
\* indicator, and its pass creates and links exactly one resource; the second
\* run creates no domain and no indicator, and executes a pass that finds the
\* link valid (the existence check is made and succeeds) and issues no write.
C24_TwoRunScenario ==
    TwoCleanRunsFromEmpty =>
        /\ ends[1].domainCreates = 1
        /\ ends[1].indicatorCreates = 1
        /\ Cardinality(Reqs(ends[1].log, "post_resource")) = 1
        /\ Cardinality(Reqs(ends[1].log, "post_link")) = 1
        /\ ends[1].nResources = 1
        /\ ends[2].domainCreates = 0
        /\ ends[2].indicatorCreates = 0
        /\ Writes(ends[2].log) = {}
        /\ \E i \in Reqs(ends[2].log, "get_resources") : ends[2].log[i].ok

-----------------------------------------------------------------------------
\* The indicator loops are running, or have run to their end.
CountersLive == pc = "indicators" \/ (InIndicatorPhase /\ ~Malformed(doc))

\* "Failed indicators" of the import summary.
FailedIndicators == total_indicators - created_indicators - skipped_indicators

\* processed = created + skipped + failed, where created counts the creates
\* that succeeded and failed those that were rejected or errored.
CountersAddUp ==
    /\ created_indicators
          = Cardinality({i \in Reqs(log, "post_indicator") : log[i].ok})
    /\ FailedIndicators
          = Cardinality({i \in Reqs(log, "post_indicator") : ~log[i].ok})
    /\ total_indicators >= 0
    /\ created_indicators >= 0
    /\ skipped_indicators >= 0
    /\ FailedIndicators >= 0

-----------------------------------------------------------------------------
\* import_complete_data returned True in the current run: main went on to
\* the backfill, whose indicator fetch follows the last indicator-create.
ImportSucceeded ==
    /\ \E i \in Reqs(log, "post_indicator") : log[i].ok
    /\ \E i \in Reqs(log, "get_indicators") : i > LastCreate(log)

\* C26 (the backfill outcome does not decide the exit status): a run whose
\* import phase reported success ends with exit status 0, whether its pass
\* updated every indicator, some, or none, and also when the pass fetched no
\* indicator at all.
C26_BackfillDoesNotDecideExit ==
    (pc = "done" /\ ImportSucceeded) => exit_code = 0

\* A run that created an indicator and whose backfill fetch returned nothing.
C26_Witness ==
    /\ pc = "done"
    /\ ImportSucceeded
    /\ bf_indicators = <<>>
    /\ updated_indicators = 0

-----------------------------------------------------------------------------
\* The resource-creates of the current pass that succeeded.
OkCreates == {i \in Reqs(log, "post_resource") : log[i].ok}

\* The orphans the current pass has produced: its failed link-writes.
FailedLinks == {j \in Reqs(log, "post_link") : ~log[j].ok}

\* C27 as stated (backfill counters): in every state of a pass
\* total_resources equals updated_indicators, both are at most the number of
\* resource-creates that succeeded, and the difference is the number of
\* orphans produced.
C27_ResourceCounters ==
    InPass =>
        /\ total_resources = updated_indicators
        /\ updated_indicators <= Cardinality(OkCreates)
        /\ Cardinality(OkCreates) - updated_indicators = Cardinality(FailedLinks)

\* C27, amended (no link write pending): total_resources equals
\* updated_indicators and both are at most the number of resource-creates
\* that succeeded; the difference is the number of orphans produced, plus one
\* in the state between a successful resource-create and its link-write.
C27_ResourceCounters_BetweenSteps ==
    InPass =>
        /\ total_resources = updated_indicators
        /\ updated_indicators <= Cardinality(OkCreates)
        /\ Cardinality(OkCreates) - updated_indicators
              = Cardinality(FailedLinks) + (IF pc = "bf_link" THEN 1 ELSE 0)

\* A finished pass that updated an indicator and produced an orphan.
C27_Witness ==
    /\ PassOver
    /\ updated_indicators >= 1
    /\ FailedLinks # {}
    /\ Cardinality(OkCreates) >= 2

-----------------------------------------------------------------------------
\* C28 (two or more references): for an indicator that the pass has come to
\* and that has two or more resource references, the resource listing is
\* requested once, for the first reference, whatever that reference is (the
\* placeholder tests are not applied); the indicator is skipped if and only
\* if that request succeeded and the listing holds the first reference,
\* whatever the other references are.
C28_FirstReferenceDecides ==
    InPass =>
        \A k \in 1 .. Min(bi - 1, Len(bf_indicators)) :
            LET rec == bf_indicators[k]
                checks == ReqsFor(log, "get_resources", rec.id)
            IN Len(rec.resources) >= 2 =>
                  /\ Cardinality(checks) = 1
                  /\ \A i \in checks : log[i].rid = rec.resources[1]
                  /\ ReqsFor(log, "post_resource", rec.id) = {}
                        <=> \E i \in checks :
                               /\ log[i].ok
                               /\ ResourceExists(resources, rec.resources[1])

\* A finished pass over an indicator whose references were the sentinel
\* followed by a live resource: the listing was requested for the sentinel
\* and a resource was created.
C28_Witness ==
    /\ PassOver
    /\ \E k \in DOMAIN bf_indicators :
          LET rec == bf_indicators[k] IN
          /\ Len(rec.resources) >= 2
          /\ rec.resources[1] = SENTINEL
          /\ ResourceExists(resources, rec.resources[2])
          /\ \E i \in ReqsFor(log, "get_resources", rec.id) : log[i].ok
          /\ ReqsFor(log, "post_resource", rec.id) # {}

====
